---- MODULE Spec2Model ----
(***************************************************************************)
(* A model of BaseBuilder (src/src/BaseBuilder.js): the persistent builder *)
(* of a tree of field descriptors.  A builder is an immutable value; every *)
(* method returns a new builder or throws.  Builders are modelled as       *)
(* records, the Immutable.Map `options` as a function whose DOMAIN is the  *)
(* set of keys present, Immutable.List values as sequences.                *)
(***************************************************************************)
EXTENDS Naturals, Sequences, FiniteSets, TLC

\* ------------------------------------------------------------------ bounds
\* number of chained calls explored by Spec
MaxCalls == 3
\* number of chained calls explored by SpecTemplates
MaxTemplateCalls == 5
\* number of chained calls explored by SpecSetters
MaxSetterCalls == 2
\* number of chained calls explored by SpecTypes
MaxTypeCalls == 5

\* ------------------------------------------------------------- value sets
Null == "null"
Keys == {"a", "b"}
Providers == {"P1", "P2"}
Callbacks == {"cb1"}
Factories == {"F1"}
TypeCombinators == {"tc1", "tc2"}
ErrorIds == {"f", "g"}
Values == {"x", "y"}

\* an Immutable.Map / plain object with no key
EmptyMap == << >>

\* ------------------------------------------------ external collaborators
\* a validation-error-message function given by the caller
ErrFn(id) == [op |-> "fn", id |-> id, args |-> << >>]
\* options.error read when the key is absent (undefined)
NoError == [op |-> "undefined", id |-> "", args |-> << >>]
\* validators.combine: opaque, only its argument list is recorded
combine(fns) == [op |-> "combine", id |-> "", args |-> fns]

\* the value a template callback returns for a provider
ApplyCallback(cb, provider) == [kind |-> "derived", of |-> cb, arg |-> provider]
\* a template factory class given by the caller
ConcreteFactory(f) == [kind |-> "concrete", of |-> f, arg |-> ""]

\* the value a type combinator returns; nargs is the number of arguments
\* the builder passes it (1: error only, 2: error and subTypes)
ApplyType(tc, error, nargs, subTypes) ==
  [kind |-> "type", tc |-> tc, error |-> error, nargs |-> nargs, sub |-> subTypes]
\* tcomb.maybe: idempotent (maybe(maybe(T)) is maybe(T))
maybe(t) == IF t.kind = "maybe" THEN t ELSE [kind |-> "maybe", of |-> t]

\* ------------------------------------------------------------ the builder
initialState ==
  [fieldBuilders |-> << >>,
   isOptional |-> FALSE,
   templateProviderCallback |-> Null,
   lazyTemplateProvider |-> Null,
   type |-> Null,
   disableTemplates |-> FALSE,
   options |-> EmptyMap]

\* keys of `options` (at any depth) whose values are themselves mappings
MapKeys == {"attrs", "config", "nullOption", "fields"}

\* Immutable's mergeDeep of a plain object into a Map: key-wise union, a
\* mapping met by a mapping is merged recursively, anything else replaced
\* a merge that replaces nested mappings wholesale
mergeShallow(m, p) ==
  [k \in DOMAIN m \cup DOMAIN p |-> IF k \in DOMAIN p THEN p[k] ELSE m[k]]

RECURSIVE mergeDeep(_, _)
mergeDeep(m, p) ==
  [k \in DOMAIN m \cup DOMAIN p |->
     IF k \notin DOMAIN p THEN m[k]
     ELSE IF k \in DOMAIN m /\ k \in MapKeys THEN mergeDeep(m[k], p[k])
     ELSE p[k]]

\* this._state.mergeDeep({ options: patch })
MergeOptions(b, patch) == [b EXCEPT !.options = mergeDeep(b.options, patch)]

Single(k, v) == [x \in {k} |-> v]

Has(m, k) == k \in DOMAIN m
\* getIn(['options', k], dflt)
GetOr(m, k, dflt) == IF k \in DOMAIN m THEN m[k] ELSE dflt

setDisabled(b, v) == MergeOptions(b, Single("disabled", v))
setLabel(b, v) == MergeOptions(b, Single("label", v))
setName(b, v) == MergeOptions(b, Single("name", v))
setValue(b, v) == MergeOptions(b, Single("value", v))
setText(b, v) == MergeOptions(b, Single("text", v))
setHelp(b, v) == MergeOptions(b, Single("help", v))
setTemplateFactory(b, f) == MergeOptions(b, Single("factory", ConcreteFactory(f)))
setLazyTemplateFactory(b, cb) == [b EXCEPT !.templateProviderCallback = cb]
setValidationErrorMessageFn(b, e) == MergeOptions(b, Single("error", e))
setTransformer(b, v) == MergeOptions(b, Single("transformer", v))
setPlaceholder(b, v) == MergeOptions(b, Single("attrs", Single("placeholder", v)))
setAutoFocus(b, v) == MergeOptions(b, Single("attrs", Single("autoFocus", v)))
setConfig(b, cfg) == MergeOptions(b, Single("config", cfg))
setType(b, tc) == [b EXCEPT !.type = tc]
setLazyTemplateProvider(b, p) == [b EXCEPT !.lazyTemplateProvider = p]
\* a makeOptional that sets a slot getType does not read
makeOptionalWrongSlot(b) == [b EXCEPT !.disableTemplates = TRUE]
makeOptional(b) == [b EXCEPT !.isOptional = TRUE]
disableTemplatesOf(b) == [b EXCEPT !.disableTemplates = TRUE]

\* a composition that puts the new function first
addValidationErrorMessageFnFirst(b, e) ==
  LET existingError == GetOr(b.options, "error", NoError)
  IN IF existingError = NoError
       THEN setValidationErrorMessageFn(b, e)
       ELSE MergeOptions(b, Single("error", combine(<<e, existingError>>)))

addValidationErrorMessageFn(b, e) ==
  LET existingError == GetOr(b.options, "error", NoError)
  IN IF existingError = NoError
       THEN setValidationErrorMessageFn(b, e)
       ELSE MergeOptions(b, Single("error", combine(<<existingError, e>>)))

\* ---------------------------------------------------------- fieldBuilders
\* _fieldBuilders is an Immutable.Map: a sequence of entries in insertion
\* order, each key at most once; setting a present key replaces its value
\* in place
FieldKeys(fb) == {fb[i].key : i \in DOMAIN fb}
FieldIndex(fb, key) == CHOOSE i \in DOMAIN fb : fb[i].key = key
FieldAt(fb, key) == fb[FieldIndex(fb, key)].builder
MapSet(fb, key, fieldBuilder) ==
  IF key \in FieldKeys(fb)
    THEN [fb EXCEPT ![FieldIndex(fb, key)] = [key |-> key, builder |-> fieldBuilder]]
    ELSE Append(fb, [key |-> key, builder |-> fieldBuilder])

\* a guard that reads the wrong key and so never rejects
setFieldThrowsWrongKey(b) == Has(b.options, "option")

\* setField throws when options.options is present
setFieldThrows(b) == Has(b.options, "options")

\* a setField that puts the key in front of order instead of at its end
setFieldUnshift(b, key, fieldBuilder) ==
  [b EXCEPT !.fieldBuilders = MapSet(b.fieldBuilders, key, fieldBuilder),
            !.options = [k \in DOMAIN b.options \cup {"order"} |->
                           IF k = "order"
                             THEN <<key>> \o GetOr(b.options, "order", << >>)
                             ELSE b.options[k]]]

setField(b, key, fieldBuilder) ==
  [b EXCEPT !.fieldBuilders = MapSet(b.fieldBuilders, key, fieldBuilder),
            !.options = [k \in DOMAIN b.options \cup {"order"} |->
                           IF k = "order"
                             THEN Append(GetOr(b.options, "order", << >>), key)
                             ELSE b.options[k]]]

\* ------------------------------------------------------------ realization
\* const { disableTemplates = this._state.get('_disableTemplates', false) } = config
ResolveDisable(config, own) == GetOr(config, "disableTemplates", own)

\* a resolution in which the builder's own provider wins over the argument
ResolveProviderOwnFirst(lazyTemplateProvider, own) ==
  IF own # Null THEN own ELSE lazyTemplateProvider

\* lazyTemplateProvider || this._state.get('_lazyTemplateProvider')
ResolveProvider(lazyTemplateProvider, own) ==
  IF lazyTemplateProvider # Null THEN lazyTemplateProvider ELSE own

\* a check that is skipped: the callback is then called with no provider
MissingProviderIgnored(hasConcrete, callback, provider, disableTemplates) ==
  FALSE

\* the condition under which getOptions throws
MissingProvider(hasConcrete, callback, provider, disableTemplates) ==
  /\ ~hasConcrete
  /\ callback # Null
  /\ provider = Null
  /\ ~disableTemplates

\* a realization that lets the callback override a concrete factory
RealizesTemplateAlways(hasConcrete, callback, disableTemplates) ==
  /\ callback # Null
  /\ ~disableTemplates

\* the condition under which the template callback is called
RealizesTemplate(hasConcrete, callback, disableTemplates) ==
  /\ ~hasConcrete
  /\ callback # Null
  /\ ~disableTemplates

\* getOptions(lazyTemplateProvider, config): lazyTemplateProvider is Null
\* when the argument is omitted, config is EmptyMap or holds the key
\* disableTemplates.  The result says whether the call returned (ok) or
\* threw, the plain object returned (val), and which template callbacks
\* were invoked (calls): <<path, callback, provider>>, path being the keys
\* leading from this builder to the sub-field whose callback was called.
Thrown(calls) == [ok |-> FALSE, val |-> EmptyMap, calls |-> calls]

Under(key, calls) == {<<(<<key>> \o c[1]), c[2], c[3]>> : c \in calls}

RECURSIVE getOptions(_, _, _)
getOptions(b, lazyTemplateProvider, config) ==
  LET disableTemplates == ResolveDisable(config, b.disableTemplates)
      provider == ResolveProvider(lazyTemplateProvider, b.lazyTemplateProvider)
      hasConcreteTemplateFactory == Has(b.options, "factory")
      templateProviderCallback == b.templateProviderCallback
      fb == b.fieldBuilders
      sub == [i \in DOMAIN fb |->
                getOptions(fb[i].builder, provider,
                           Single("disableTemplates", disableTemplates))]
      failed == {i \in DOMAIN fb : ~sub[i].ok}
      \* the reduce stops at the first field whose getOptions throws
      ran == {i \in DOMAIN fb : \A j \in failed : i <= j}
      subCalls == UNION {Under(fb[i].key, sub[i].calls) : i \in ran}
      fields == IF fb = << >>
                  THEN EmptyMap
                  ELSE Single("fields",
                              [k \in FieldKeys(fb) |-> sub[FieldIndex(fb, k)].val])
      realize == RealizesTemplate(hasConcreteTemplateFactory,
                                  templateProviderCallback, disableTemplates)
      options == IF realize
                   THEN mergeDeep(b.options,
                          Single("factory",
                                 ApplyCallback(templateProviderCallback, provider)))
                   ELSE b.options
  IN IF MissingProvider(hasConcreteTemplateFactory, templateProviderCallback,
                        provider, disableTemplates)
       THEN Thrown({})
     ELSE IF failed # {}
       THEN Thrown(subCalls)
     ELSE [ok |-> TRUE,
           val |-> mergeDeep(options, fields),
           calls |-> subCalls \cup
                     (IF realize
                        THEN {<< << >>, templateProviderCallback, provider>>}
                        ELSE {})]

\* getOptions() with no argument
NoConfig == EmptyMap

\* a select option realized with the parent's provider
selectGetOptionsParentProvider(b, selectBuilder) ==
  getOptions(selectBuilder, b.lazyTemplateProvider, NoConfig)

\* selectBuilder.getOptions() of addSelectOption and setNullOption
selectGetOptions(b, selectBuilder) == getOptions(selectBuilder, Null, NoConfig)

\* addSelectOption throws its own error when a field is set; otherwise it
\* throws whatever selectBuilder.getOptions() throws
addSelectOptionRejects(b) == b.fieldBuilders # << >>
addSelectOptionThrows(b, selectBuilder) ==
  addSelectOptionRejects(b) \/ ~selectGetOptions(b, selectBuilder).ok

addSelectOption(b, selectBuilder) ==
  LET selectOptions == selectGetOptions(b, selectBuilder).val
  IN [b EXCEPT !.options = [k \in DOMAIN b.options \cup {"options"} |->
                              IF k = "options"
                                THEN Append(GetOr(b.options, "options", << >>),
                                            selectOptions)
                                ELSE b.options[k]]]

setNullOptionThrows(b, selectBuilder) == ~selectGetOptions(b, selectBuilder).ok
setNullOption(b, selectBuilder) ==
  MergeOptions(b, Single("nullOption", selectGetOptions(b, selectBuilder).val))

\* getType(): ok is FALSE when the call throws (no _type to call, here or
\* in a sub-field)
TypeThrown == [ok |-> FALSE, val |-> [kind |-> "none"]]

RECURSIVE getType(_)
getType(b) ==
  LET fb == b.fieldBuilders
      error == GetOr(b.options, "error", NoError)
      sub == [i \in DOMAIN fb |-> getType(fb[i].builder)]
      subTypes == [k \in FieldKeys(fb) |-> sub[FieldIndex(fb, k)].val]
      type == IF fb = << >>
                THEN IF b.type = Null
                       THEN TypeThrown
                       ELSE [ok |-> TRUE, val |-> ApplyType(b.type, error, 1, EmptyMap)]
              ELSE IF \E i \in DOMAIN fb : ~sub[i].ok
                THEN TypeThrown
              ELSE IF b.type = Null
                THEN TypeThrown
              ELSE [ok |-> TRUE, val |-> ApplyType(b.type, error, 2, subTypes)]
  IN IF b.isOptional /\ type.ok
       THEN [ok |-> TRUE, val |-> maybe(type.val)]
       ELSE type

\* ------------------------------------------------------- the caller's state
\* b:    the builder the caller is chaining calls on
\* kid:  a builder the caller kept, passed as fieldBuilder / selectBuilder
\* alt:  the builder obtained from the same calls with two of them swapped
\* n:    number of calls made so far
\* hist: what the caller passed to the calls that built b (keys passed to
\*       setField and the builder last passed for each, the error setters
\*       called, the template factory setters called, the last type
\*       combinator, whether makeOptional was called)
\* last: the last call, whether it returned (ok) or threw, and its key
\* out:  the result of the last realization
VARIABLES b, kid, alt, n, hist, last, out

vars == <<b, kid, alt, n, hist, last, out>>

NoHist ==
  [keys |-> << >>, children |-> EmptyMap, errs |-> << >>, tpl |-> << >>,
   type |-> Null, optional |-> FALSE]
NoOut == [kind |-> "none"]

Init ==
  /\ b = initialState
  /\ kid = initialState
  /\ alt = initialState
  /\ n = 0
  /\ hist = NoHist
  /\ last = [op |-> "new", ok |-> TRUE, key |-> Null]
  /\ out = NoOut

\* a call on b that returns the builder nb
Returns(op, key, nb, nh) ==
  /\ b' = nb
  /\ hist' = nh
  /\ last' = [op |-> op, ok |-> TRUE, key |-> key]
  /\ n' = n + 1
  /\ out' = NoOut
  /\ UNCHANGED <<kid, alt>>

\* a call on b that throws: the caller still holds b
Throws(op, key) ==
  /\ last' = [op |-> op, ok |-> FALSE, key |-> key]
  /\ n' = n + 1
  /\ out' = NoOut
  /\ UNCHANGED <<b, kid, alt, hist>>

SetLabel(max) ==
  /\ n < max
  /\ \E v \in Values : Returns("setLabel", Null, setLabel(b, v), hist)

SetValue(max) ==
  /\ n < max
  /\ \E v \in Values : Returns("setValue", Null, setValue(b, v), hist)

SetText(max) ==
  /\ n < max
  /\ \E v \in Values : Returns("setText", Null, setText(b, v), hist)

SetPlaceholder(max) ==
  /\ n < max
  /\ \E v \in Values : Returns("setPlaceholder", Null, setPlaceholder(b, v), hist)

MakeOptional(max) ==
  /\ n < max
  /\ Returns("makeOptional", Null, makeOptional(b), [hist EXCEPT !.optional = TRUE])

SetType(max) ==
  /\ n < max
  /\ \E tc \in TypeCombinators :
       Returns("setType", Null, setType(b, tc), [hist EXCEPT !.type = tc])

SetField(max) ==
  /\ n < max
  /\ \E key \in Keys :
       IF setFieldThrows(b)
         THEN Throws("setField", key)
         ELSE Returns("setField", key, setField(b, key, kid),
                      [hist EXCEPT !.keys = Append(@, key),
                                   !.children = [k \in DOMAIN @ \cup {key} |->
                                                   IF k = key THEN kid ELSE @[k]]])

AddSelectOption(max) ==
  /\ n < max
  /\ IF addSelectOptionThrows(b, kid)
       THEN Throws("addSelectOption", Null)
       ELSE Returns("addSelectOption", Null, addSelectOption(b, kid), hist)

\* the select builder of setNullOption holds a value and a text (line 273):
\* it has neither fields nor select options of its own
SetNullOption(max) ==
  /\ n < max
  /\ kid.fieldBuilders = << >>
  /\ ~Has(kid.options, "options")
  /\ IF setNullOptionThrows(b, kid)
       THEN Throws("setNullOption", Null)
       ELSE Returns("setNullOption", Null, setNullOption(b, kid), hist)

\* the caller keeps b for later use as a sub-field or select option and
\* starts chaining on a new BaseBuilder()
Keep(max) ==
  /\ n < max
  /\ b # initialState
  /\ kid' = b
  /\ b' = initialState
  /\ hist' = NoHist
  /\ last' = [op |-> "new", ok |-> TRUE, key |-> Null]
  /\ n' = n + 1
  /\ out' = NoOut
  /\ UNCHANGED alt

SetLazyTemplateFactory(max) ==
  /\ n < max
  /\ \E cb \in Callbacks :
       Returns("setLazyTemplateFactory", Null, setLazyTemplateFactory(b, cb),
               [hist EXCEPT !.tpl = Append(@, "lazy")])

SetTemplateFactory(max) ==
  /\ n < max
  /\ \E f \in Factories :
       Returns("setTemplateFactory", Null, setTemplateFactory(b, f),
               [hist EXCEPT !.tpl = Append(@, "concrete")])

SetLazyTemplateProvider(max) ==
  /\ n < max
  /\ \E p \in Providers :
       Returns("setLazyTemplateProvider", Null, setLazyTemplateProvider(b, p), hist)

DisableTemplates(max) ==
  /\ n < max
  /\ Returns("_disableTemplates", Null, disableTemplatesOf(b), hist)

\* the caller derives a new builder from the kept one and keeps that
DeriveKid(max) ==
  /\ n < max
  /\ kid' = setText(kid, "x")
  /\ last' = [op |-> "derive", ok |-> TRUE, key |-> Null]
  /\ n' = n + 1
  /\ out' = NoOut
  /\ UNCHANGED <<b, alt, hist>>

SetValidationErrorMessageFn(max) ==
  /\ n < max
  /\ \E e \in ErrorIds :
       Returns("setValidationErrorMessageFn", Null,
               setValidationErrorMessageFn(b, ErrFn(e)),
               [hist EXCEPT !.errs = Append(@, [call |-> "set", id |-> e])])

AddValidationErrorMessageFn(max) ==
  /\ n < max
  /\ \E e \in ErrorIds :
       Returns("addValidationErrorMessageFn", Null,
               addValidationErrorMessageFn(b, ErrFn(e)),
               [hist EXCEPT !.errs = Append(@, [call |-> "add", id |-> e])])

\* the twelve setters of configuration keys and the key each one writes
Setters ==
  {"setDisabled", "setLabel", "setName", "setValue", "setText", "setHelp",
   "setTemplateFactory", "setValidationErrorMessageFn", "setTransformer",
   "setPlaceholder", "setAutoFocus", "setConfig"}

SetterKey(s) ==
  CASE s = "setDisabled" -> "disabled"
    [] s = "setLabel" -> "label"
    [] s = "setName" -> "name"
    [] s = "setValue" -> "value"
    [] s = "setText" -> "text"
    [] s = "setHelp" -> "help"
    [] s = "setTemplateFactory" -> "factory"
    [] s = "setValidationErrorMessageFn" -> "error"
    [] s = "setTransformer" -> "transformer"
    [] s = "setPlaceholder" -> "attrs.placeholder"
    [] s = "setAutoFocus" -> "attrs.autoFocus"
    [] s = "setConfig" -> "config"

\* x.s(v); a config object is {v: v}
Apply(s, x, v) ==
  CASE s = "setDisabled" -> setDisabled(x, v)
    [] s = "setLabel" -> setLabel(x, v)
    [] s = "setName" -> setName(x, v)
    [] s = "setValue" -> setValue(x, v)
    [] s = "setText" -> setText(x, v)
    [] s = "setHelp" -> setHelp(x, v)
    [] s = "setTemplateFactory" -> setTemplateFactory(x, v)
    [] s = "setValidationErrorMessageFn" -> setValidationErrorMessageFn(x, ErrFn(v))
    [] s = "setTransformer" -> setTransformer(x, v)
    [] s = "setPlaceholder" -> setPlaceholder(x, v)
    [] s = "setAutoFocus" -> setAutoFocus(x, v)
    [] s = "setConfig" -> setConfig(x, Single(v, v))

\* the caller chains two setters of disjoint keys on b in both orders:
\* b.s1(x).s2(y) is kept in b and b.s2(y).s1(x) in alt
SwapSetters(max) ==
  /\ n < max
  /\ \E s1 \in Setters, s2 \in Setters, x \in {"x"}, y \in {"y"} :
       /\ SetterKey(s1) # SetterKey(s2)
       /\ b' = Apply(s2, Apply(s1, b, x), y)
       /\ alt' = Apply(s1, Apply(s2, b, y), x)
  /\ last' = [op |-> "swap", ok |-> TRUE, key |-> Null]
  /\ n' = n + 1
  /\ out' = NoOut
  /\ UNCHANGED <<kid, hist>>

\* b.getType(); the builder is unchanged
GetType ==
  /\ last.op # "getType"
  /\ out' = [kind |-> "type", provider |-> Null, config |-> EmptyMap,
             result |-> getType(b)]
  /\ last' = [op |-> "getType", ok |-> out'.result.ok, key |-> Null]
  /\ UNCHANGED <<b, kid, alt, n, hist>>

Configs == {EmptyMap, Single("disableTemplates", TRUE), Single("disableTemplates", FALSE)}

\* b.getOptions(provider, config); the builder is unchanged
GetOptions ==
  /\ last.op # "getOptions"
  /\ \E p \in Providers \cup {Null}, config \in Configs :
       out' = [kind |-> "options", provider |-> p, config |-> config,
               result |-> getOptions(b, p, config)]
  /\ last' = [op |-> "getOptions", ok |-> out'.result.ok, key |-> Null]
  /\ UNCHANGED <<b, kid, alt, n, hist>>

Next ==
  \/ SetLabel(MaxCalls)
  \/ SetValue(MaxCalls)
  \/ SetText(MaxCalls)
  \/ SetPlaceholder(MaxCalls)
  \/ MakeOptional(MaxCalls)
  \/ SetType(MaxCalls)
  \/ SetField(MaxCalls)
  \/ AddSelectOption(MaxCalls)
  \/ SetNullOption(MaxCalls)
  \/ Keep(MaxCalls)
  \/ GetOptions

Spec == Init /\ [][Next]_vars

NextTemplates ==
  \/ SetLazyTemplateFactory(MaxTemplateCalls)
  \/ SetTemplateFactory(MaxTemplateCalls)
  \/ SetLazyTemplateProvider(MaxTemplateCalls)
  \/ DisableTemplates(MaxTemplateCalls)
  \/ SetField(MaxTemplateCalls)
  \/ AddSelectOption(MaxTemplateCalls)
  \/ Keep(MaxTemplateCalls)
  \/ DeriveKid(MaxTemplateCalls)
  \/ GetOptions

SpecTemplates == Init /\ [][NextTemplates]_vars

NextSetters ==
  \/ SwapSetters(MaxSetterCalls)
  \/ SetLazyTemplateFactory(MaxSetterCalls)
  \/ SetLazyTemplateProvider(MaxSetterCalls)
  \/ DisableTemplates(MaxSetterCalls)
  \/ SetField(MaxSetterCalls)

SpecSetters == Init /\ [][NextSetters]_vars

NextTypes ==
  \/ SetType(MaxTypeCalls)
  \/ MakeOptional(MaxTypeCalls)
  \/ SetValidationErrorMessageFn(MaxTypeCalls)
  \/ AddValidationErrorMessageFn(MaxTypeCalls)
  \/ SetField(MaxTypeCalls)
  \/ Keep(MaxTypeCalls)
  \/ GetType
  \/ GetOptions

SpecTypes == Init /\ [][NextTypes]_vars

\* ================================================================ claims
Order(x) == GetOr(x.options, "order", << >>)
SelectOptions(x) == GetOr(x.options, "options", << >>)

\* every builder one call away from x by a call that is not setField,
\* addSelectOption or setNullOption
SetterResults(x) ==
  UNION {{setDisabled(x, v), setLabel(x, v), setName(x, v), setValue(x, v),
          setText(x, v), setHelp(x, v), setTransformer(x, v),
          setPlaceholder(x, v), setAutoFocus(x, v),
          setConfig(x, Single("k", v))} : v \in Values}
  \cup {setTemplateFactory(x, f) : f \in Factories}
  \cup {setLazyTemplateFactory(x, cb) : cb \in Callbacks}
  \cup {setLazyTemplateProvider(x, p) : p \in Providers}
  \cup {setValidationErrorMessageFn(x, ErrFn(e)) : e \in ErrorIds}
  \cup {addValidationErrorMessageFn(x, ErrFn(e)) : e \in ErrorIds}
  \cup {setType(x, tc) : tc \in TypeCombinators}
  \cup {makeOptional(x), disableTemplatesOf(x)}

\* C1: no builder the caller can hold has both a field and a select
\* option; setField on a builder holding a select option throws, and
\* addSelectOption on a builder holding a field throws.
C1_MutualExclusion ==
  /\ \A x \in {b, kid} : ~(x.fieldBuilders # << >> /\ SelectOptions(x) # << >>)
  /\ (last.op = "setField" /\ SelectOptions(b) # << >>) => ~last.ok
  /\ (last.op = "addSelectOption" /\ b.fieldBuilders # << >>) => ~last.ok

C1_Witness ==
  /\ last.op = "setField"
  /\ ~last.ok
  /\ Len(SelectOptions(b)) >= 1
  /\ b.fieldBuilders = << >>

C4_Step ==
  /\ (last'.op = "setField" /\ last'.ok) => Order(b') = Append(Order(b), last'.key)
  /\ (last'.op \notin {"setField", "new"} \/ ~last'.ok) => Order(b') = Order(b)
  /\ \A x \in SetterResults(b') : Order(x) = Order(b')
  /\ Order(b') = hist'.keys
  /\ (last'.op = "getOptions" /\ last'.ok) =>
        GetOr(out'.result.val, "order", << >>) = hist'.keys

\* C4: a setField that returns appends its key to order and changes
\* nothing else of it; no other call changes order; the order a
\* realization returns is the sequence of keys passed to setField.
C4_AppendOnly == [][C4_Step]_vars

C4_Witness ==
  /\ last.op = "getOptions"
  /\ out.result.ok
  /\ hist.keys = <<"a", "b">>
  /\ GetOr(out.result.val, "order", << >>) = <<"a", "b">>
  /\ Has(b.options, "label")

\* C10: order lists the keys of fieldBuilders in insertion order, each
\* exactly once, also after setField calls that reuse a key.
C10_OrderMirrorsFields ==
  Order(b) = [i \in DOMAIN b.fieldBuilders |-> b.fieldBuilders[i].key]

\* ------------------------------------------------- template realization
\* the provider and the disableTemplates flag the last getOptions call on b
\* resolved at b itself
OutProvider == IF out.provider # Null THEN out.provider ELSE b.lazyTemplateProvider
OutDisable ==
  IF Has(out.config, "disableTemplates")
    THEN out.config["disableTemplates"]
    ELSE b.disableTemplates

WantsTemplate(x) == x.templateProviderCallback # Null /\ ~Has(x.options, "factory")

FieldConfig(cfg, key) == cfg["fields"][key]
HasFieldConfig(cfg, key) == Has(cfg, "fields") /\ key \in DOMAIN cfg["fields"]

\* x and every sub-field of x at any depth that wants a template has, in
\* the realized cfg, the factory its own callback returns for p
RECURSIVE Propagated(_, _, _)
Propagated(x, cfg, p) ==
  /\ WantsTemplate(x) =>
       /\ Has(cfg, "factory")
       /\ cfg["factory"] = ApplyCallback(x.templateProviderCallback, p)
  /\ \A i \in DOMAIN x.fieldBuilders :
       /\ HasFieldConfig(cfg, x.fieldBuilders[i].key)
       /\ Propagated(x.fieldBuilders[i].builder,
                     FieldConfig(cfg, x.fieldBuilders[i].key), p)

\* C2: when the provider resolved at the root is a present value P, P
\* reaches every sub-field at every depth: with templates not disabled the
\* call returns, every node that has a callback and no concrete factory
\* gets its callback's value for P, and no callback is called with any
\* other provider, whatever provider the sub-fields carry themselves.
C2_ProviderPropagation ==
  (last.op = "getOptions" /\ OutProvider # Null /\ ~OutDisable) =>
     /\ out.result.ok
     /\ Propagated(b, out.result.val, OutProvider)
     /\ \A c \in out.result.calls : c[3] = OutProvider

C2_Witness ==
  /\ last.op = "getOptions"
  /\ out.provider = "P1"
  /\ ~OutDisable
  /\ Len(b.fieldBuilders) = 1
  /\ LET f == b.fieldBuilders[1]
     IN /\ WantsTemplate(f.builder)
        /\ f.builder.lazyTemplateProvider = "P2"
        /\ out.result.ok
        /\ FieldConfig(out.result.val, f.key)["factory"]
             = ApplyCallback(f.builder.templateProviderCallback, "P1")

\* some node of the tree of x wants a template and has no provider, neither
\* handed down (passed) nor its own
RECURSIVE NodeMissing(_, _)
NodeMissing(x, passed) ==
  LET avail == IF passed # Null THEN passed ELSE x.lazyTemplateProvider
  IN \/ WantsTemplate(x) /\ avail = Null
     \/ \E i \in DOMAIN x.fieldBuilders :
          NodeMissing(x.fieldBuilders[i].builder, avail)

\* every node of the tree of x that wants a template has a factory in cfg
RECURSIVE NoFactoryLacking(_, _)
NoFactoryLacking(x, cfg) ==
  /\ WantsTemplate(x) => Has(cfg, "factory")
  /\ \A i \in DOMAIN x.fieldBuilders :
       /\ HasFieldConfig(cfg, x.fieldBuilders[i].key)
       /\ NoFactoryLacking(x.fieldBuilders[i].builder,
                           FieldConfig(cfg, x.fieldBuilders[i].key))

\* C3: getOptions throws, returning nothing, exactly when templates are
\* not disabled and the builder or one of its sub-fields at any depth has a
\* callback, no concrete factory and no provider available at that node;
\* a configuration that is returned lacks no such node's factory.
C3_MissingProviderFails ==
  last.op = "getOptions" =>
     /\ out.result.ok <=> ~(~OutDisable /\ NodeMissing(b, out.provider))
     /\ ~out.result.ok => out.result.val = EmptyMap
     /\ (out.result.ok /\ ~OutDisable) => NoFactoryLacking(b, out.result.val)

C3_Witness ==
  /\ last.op = "getOptions"
  /\ ~out.result.ok
  /\ ~WantsTemplate(b)
  /\ Len(b.fieldBuilders) = 1
  /\ ~WantsTemplate(b.fieldBuilders[1].builder)
  /\ Len(b.fieldBuilders[1].builder.fieldBuilders) = 1

\* the claim about one node x realized as cfg at path, with provider p
\* handed to its callback and templates disabled or not (d)
RECURSIVE Supersedes(_, _, _, _, _)
Supersedes(x, cfg, path, p, d) ==
  LET concrete == Has(x.options, "factory")
      cb == x.templateProviderCallback
      called == {c \in out.result.calls : c[1] = path}
      avail == IF p # Null THEN p ELSE x.lazyTemplateProvider
  IN /\ concrete => (cfg["factory"] = x.options["factory"] /\ called = {})
     /\ (~concrete /\ cb # Null /\ ~d) =>
          /\ cfg["factory"] = ApplyCallback(cb, avail)
          /\ called = {<<path, cb, avail>>}
     /\ d => (called = {} /\ (Has(cfg, "factory") <=> concrete))
     /\ \A i \in DOMAIN x.fieldBuilders :
          Supersedes(x.fieldBuilders[i].builder,
                     FieldConfig(cfg, x.fieldBuilders[i].key),
                     Append(path, x.fieldBuilders[i].key), avail, d)

\* C8: a builder on which setTemplateFactory(F) was called realizes factory
\* F, its callback is not called and it does not make getOptions throw,
\* whichever of setTemplateFactory and setLazyTemplateFactory came first;
\* with a callback, no concrete factory and templates not disabled the
\* factory is the callback's value for the provider; with templates
\* disabled no callback is called and no factory comes from one.
C8_ConcreteSupersedes ==
  last.op = "getOptions" =>
     /\ out.result.ok => Supersedes(b, out.result.val, << >>, out.provider, OutDisable)
     /\ Has(b.options, "factory") =>
          /\ \A c \in out.result.calls : c[1] # << >>
          /\ b.fieldBuilders = << >> => out.result.ok

C8_Witness ==
  /\ last.op = "getOptions"
  /\ hist.tpl = <<"concrete", "lazy">>
  /\ b.templateProviderCallback # Null
  /\ OutProvider = Null
  /\ ~OutDisable
  /\ out.result.ok
  /\ out.result.val["factory"] = ConcreteFactory("F1")
  /\ out.result.calls = {}

C7_Step ==
  /\ (last'.op = "addSelectOption" /\ b.fieldBuilders = << >>) =>
       LET r == getOptions(kid, Null, NoConfig)
       IN /\ last'.ok = r.ok
          /\ r.ok => SelectOptions(b') = Append(SelectOptions(b), r.val)
          /\ ~r.ok => b' = b
          /\ (WantsTemplate(kid) /\ kid.lazyTemplateProvider = Null
              /\ ~kid.disableTemplates) => ~last'.ok
  /\ last'.op # "new" =>
       /\ Len(SelectOptions(b')) >= Len(SelectOptions(b))
       /\ \A i \in DOMAIN SelectOptions(b) : SelectOptions(b')[i] = SelectOptions(b)[i]

\* C7: addSelectOption on a builder with no field returns or throws as
\* selectBuilder.getOptions() with no argument does; when it returns, the
\* new options list is the old one with that realization appended; no
\* later call changes an entry already stored; and a select builder that
\* has a callback, no concrete factory, no provider of its own and
\* templates not disabled makes it throw, whatever provider the parent has.
C7_EagerSnapshot == [][C7_Step]_vars

C7_Witness ==
  /\ last.op = "addSelectOption"
  /\ ~last.ok
  /\ b.fieldBuilders = << >>
  /\ b.lazyTemplateProvider # Null
  /\ WantsTemplate(kid)
  /\ kid.lazyTemplateProvider = Null

\* ------------------------------------------------------------- setters
\* C5: two setters of disjoint configuration keys chained in either order
\* realize equal configurations (or both throw) for every provider and
\* config.
C5_SettersCommute ==
  last.op = "swap" =>
     \A p \in Providers \cup {Null}, config \in Configs :
        getOptions(b, p, config) = getOptions(alt, p, config)

C5_Witness ==
  /\ last.op = "swap"
  /\ b.templateProviderCallback # Null
  /\ DOMAIN b.options = {"attrs"}
  /\ DOMAIN b.options["attrs"] = {"placeholder", "autoFocus"}
  /\ getOptions(b, "P1", NoConfig).ok
  /\ getOptions(b, "P1", NoConfig) = getOptions(alt, "P1", NoConfig)

\* ------------------------------------------------------ error functions
\* the error function the calls made so far define: set replaces, add
\* sets when there is none and otherwise combines [existing, new]
RECURSIVE RefError(_)
RefError(errs) ==
  IF errs = << >>
    THEN NoError
    ELSE LET c == errs[Len(errs)]
             before == RefError(SubSeq(errs, 1, Len(errs) - 1))
         IN IF c.call = "set" \/ before = NoError
              THEN ErrFn(c.id)
              ELSE combine(<<before, ErrFn(c.id)>>)

\* C6: addValidationErrorMessageFn(g) with no error function set gives g
\* itself, with e set it gives combine([e, g]), and
\* setValidationErrorMessageFn(f) replaces whatever was accumulated; the
\* realized error is the left-nested combination of the calls made since
\* the last set.
C6_ErrorComposition ==
  /\ GetOr(b.options, "error", NoError) = RefError(hist.errs)
  /\ (last.op = "getOptions" /\ out.result.ok) =>
        GetOr(out.result.val, "error", NoError) = RefError(hist.errs)

C6_Witness ==
  /\ last.op = "getOptions"
  /\ out.result.ok
  /\ hist.errs = <<[call |-> "add", id |-> "g"], [call |-> "set", id |-> "f"],
                  [call |-> "add", id |-> "g"], [call |-> "add", id |-> "f"]>>
  /\ out.result.val["error"]
       = combine(<<combine(<<ErrFn("f"), ErrFn("g")>>), ErrFn("f")>>)

\* ------------------------------------------------------------- types
\* the type the calls made so far define
RefType ==
  LET e == RefError(hist.errs)
      keys == {hist.keys[i] : i \in DOMAIN hist.keys}
      sub == [k \in keys |-> getType(hist.children[k])]
      base == IF hist.type = Null \/ \E k \in keys : ~sub[k].ok
                THEN TypeThrown
              ELSE IF keys = {}
                THEN [ok |-> TRUE, val |-> ApplyType(hist.type, e, 1, EmptyMap)]
              ELSE [ok |-> TRUE,
                    val |-> ApplyType(hist.type, e, 2, [k \in keys |-> sub[k].val])]
  IN IF base.ok /\ hist.optional
       THEN [ok |-> TRUE, val |-> [kind |-> "maybe", of |-> base.val]]
       ELSE base

\* C9: in whatever order setType, the error setters, setField and
\* makeOptional were called, getType throws when no type combinator is set
\* and otherwise returns the combinator applied to the current error
\* function (and, with fields, to the mapping from every field key to that
\* sub-field's own getType result), wrapped in maybe exactly when
\* makeOptional was called; b.makeOptional().getType() is
\* maybe(b.getType()).
C9_TypeRealization ==
  /\ getType(b) = RefType
  /\ last.op = "getType" => out.result = RefType
  /\ LET t == getType(b)
         o == getType(makeOptional(b))
     IN /\ o.ok = t.ok
        /\ t.ok => o.val = maybe(t.val)

C9_Witness ==
  /\ last.op = "getType"
  /\ out.result.ok
  /\ hist.optional
  /\ hist.keys # << >>
  /\ out.result.val.kind = "maybe"
  /\ out.result.val.of.nargs = 2
  /\ getType(makeOptional(b)).val = out.result.val

====
